---------------------------- MODULE Spec2Model ----------------------------
(***************************************************************************)
(* Model of src/lacrosse-logic.js: the change-classification decision      *)
(* tree, the composite risk score and tier, the approval-path lookup, and  *)
(* the two event handlers (form submit, Assess Risk click) that drive the  *)
(* page.                                                                   *)
(*                                                                         *)
(* Conventions                                                             *)
(*  - JavaScript strings are TLA+ strings.  The module's string literals   *)
(*    are ASCII only, so the three non-ASCII characters of the source's    *)
(*    texts are transliterated: the em dash as "--", the arrow as "->",    *)
(*    the multiplication sign as "x".                                      *)
(*  - null and undefined are the strings "null" and "undefined"; a radio   *)
(*    group with nothing checked has the value "undefined", which is what  *)
(*    querySelector(...)?.value evaluates to.                              *)
(*  - A JavaScript value that a property lookup can produce is a record    *)
(*    [type, items]: type "array" with its items, "undefined", or          *)
(*    "inherited" for a member found on Object.prototype.                  *)
(*  - A number that is a quotient of integers is the record [num, den];    *)
(*    comparisons against decimal literals are cross-multiplied.           *)
(***************************************************************************)
EXTENDS Integers, Sequences, FiniteSets

(***************************************************************************)
(* DATA                                                                    *)
(***************************************************************************)

\* lacrosse-logic.js:7-50
RISK_DIMENSIONS ==
  << [id |-> "impact-scope", label |-> "Impact Scope",
      lowDesc |-> "1 = Single non-critical component",
      highDesc |-> "5 = Multiple critical business services"],
     [id |-> "complexity", label |-> "Complexity",
      lowDesc |-> "1 = Single config change",
      highDesc |-> "5 = Multi-system orchestrated deployment"],
     [id |-> "reversibility", label |-> "Reversibility",
      lowDesc |-> "1 = Instant automated rollback",
      highDesc |-> "5 = Irreversible (data migration, schema)"],
     [id |-> "testing-confidence", label |-> "Testing Confidence",
      lowDesc |-> "1 = Full automated test coverage",
      highDesc |-> "5 = No test environment available"],
     [id |-> "deployment-history", label |-> "Deployment History",
      lowDesc |-> "1 = Identical change succeeded 10x",
      highDesc |-> "5 = First-of-its-kind change"],
     [id |-> "timing-sensitivity", label |-> "Timing Sensitivity",
      lowDesc |-> "1 = Off-peak, low-traffic window",
      highDesc |-> "5 = Peak hours, month-end, launch day"],
     [id |-> "dependency-count", label |-> "Dependency Count",
      lowDesc |-> "1 = Zero external dependencies",
      highDesc |-> "5 = 5+ teams / external vendors involved"] >>

\* lacrosse-logic.js:54-61
StandardSteps ==
  << "Requester triggers pipeline",
     "Automated pre-checks (lint, test, scan)",
     "Auto-approved -- change model match verified",
     "Deploy",
     "Automated validation",
     "Change record logged automatically" >>

\* lacrosse-logic.js:62-70
NormalLowSteps ==
  << "Requester submits RFC",
     "Automated risk scoring",
     "Peer review (1 reviewer, async)",
     "Approved -> Scheduled in change calendar",
     "Deploy in approved window",
     "Validation",
     "Close RFC" >>

\* lacrosse-logic.js:71-80
NormalMediumSteps ==
  << "Requester submits RFC",
     "Automated risk scoring",
     "Technical review (architect or senior engineer)",
     "Change authority approval",
     "Scheduled in change calendar (with conflict check)",
     "Deploy with monitoring",
     "Validation + brief PIR",
     "Close RFC" >>

\* lacrosse-logic.js:81-92
NormalHighSteps ==
  << "Requester submits RFC",
     "Automated risk scoring",
     "Technical review + security review",
     "Pre-CAB: documentation completeness check",
     "CAB review (weekly cadence or ad-hoc)",
     "Senior management sign-off",
     "Scheduled with communication plan",
     "Deploy with war-room / bridge call",
     "Validation + full PIR",
     "Close RFC" >>

\* lacrosse-logic.js:93-101
EmergencySteps ==
  << "Incident declared",
     "Emergency RFC created (minimal fields)",
     "ECAB approval (phone/chat, 2 approvers minimum)",
     "Implement immediately",
     "Validate service restored",
     "Retrospective RFC completion (within 48 h)",
     "Mandatory PIR" >>

\* lacrosse-logic.js:53-102: the object literal, as a function from its own
\* property names to their values.
APPROVAL_WORKFLOWS ==
  [k \in {"Standard", "Normal-Low", "Normal-Medium", "Normal-High", "Emergency"} |->
     CASE k = "Standard"      -> StandardSteps
       [] k = "Normal-Low"    -> NormalLowSteps
       [] k = "Normal-Medium" -> NormalMediumSteps
       [] k = "Normal-High"   -> NormalHighSteps
       [] k = "Emergency"     -> EmergencySteps]

\* The property names an object literal inherits from Object.prototype: a
\* bracket lookup obj[key] (lacrosse-logic.js:173, 175) finds these when the
\* object has no own property of that name.
ObjectPrototypeKeys ==
  {"constructor", "toString", "toLocaleString", "valueOf", "hasOwnProperty",
   "isPrototypeOf", "propertyIsEnumerable", "__proto__"}

\* slider.min, slider.max, slider.value of lacrosse-logic.js:258-261
SliderMin == 1
SliderMax == 5
SliderDefault == 3

\* The literals of the tier comparisons, in tenths (2.0 and 3.5).
LowMaxTenths == 20
MediumMaxTenths == 35

(***************************************************************************)
(* STATE                                                                   *)
(***************************************************************************)

VARIABLES
  \* the module-level objects
  dimensions,          \* RISK_DIMENSIONS
  workflows,           \* APPROVAL_WORKFLOWS
  \* the page
  serviceDownChecked,  \* value of the checked service-down radio, or "undefined"
  preApprovedChecked,  \* value of the checked pre-approved radio, or "undefined"
  alertOpen,           \* the alert() of the submit handler is on screen
  hidden,              \* the hidden attribute of each card
  classificationOutput,\* #classification-output: [textContent, className]
  classificationNote,  \* #classification-note textContent
  slidersContainer,    \* #sliders-container: one row per built slider
  compositeScore,      \* #composite-score textContent
  riskTierBadge,       \* #risk-tier: [textContent, className]
  approvalPathOutput,  \* #approval-path-output: its <ol> elements, each a list of <li> texts
  classifyCall,        \* arguments of the latest classifyChange call of a handler
  pathCall,            \* arguments of the latest getApprovalPath call of a handler
  \* a direct call of one of the three core functions
  op,                  \* the function called
  args,                \* its arguments
  ret,                 \* its return value
  pc                   \* "idle", "ready", "returned", "threw", "resolved"

pageVars ==
  << serviceDownChecked, preApprovedChecked, alertOpen, hidden,
     classificationOutput, classificationNote, slidersContainer,
     compositeScore, riskTierBadge, approvalPathOutput, classifyCall, pathCall >>

callVars == << op, args, ret, pc >>

vars == << dimensions, workflows, pageVars, callVars >>


(***************************************************************************)
(* JAVASCRIPT VALUES                                                       *)
(***************************************************************************)

\* An array value.
Array(items) == [type |-> "array", items |-> items]

\* The value undefined.
Undefined == [type |-> "undefined", items |-> << >>]

\* obj[key] on an object literal: the own property if there is one, else the
\* member inherited from Object.prototype if there is one, else undefined.
GetProperty(obj, key) ==
  IF key \in DOMAIN obj THEN Array(obj[key])
  ELSE IF key \in ObjectPrototypeKeys
       THEN [type |-> "inherited", items |-> << >>]
       ELSE Undefined

\* v || []: undefined is falsy; an array (empty or not) and any function or
\* object are truthy.
OrEmptyArray(v) == IF v.type = "undefined" THEN Array(<< >>) ELSE v

\* `${x}` and String(n) for the one-digit numbers the page handles.
DigitString(n) ==
  CASE n = 0 -> "0" [] n = 1 -> "1" [] n = 2 -> "2" [] n = 3 -> "3"
    [] n = 4 -> "4" [] n = 5 -> "5" [] n = 6 -> "6" [] n = 7 -> "7"
    [] n = 8 -> "8" [] n = 9 -> "9"

\* parseInt(s, 10) of a string of one decimal digit; NaN (here -1) otherwise.
parseInt(s) ==
  IF \E n \in 0..9 : DigitString(n) = s
  THEN CHOOSE n \in 0..9 : DigitString(n) = s
  ELSE -1

\* Number.prototype.toFixed(2) of the non-negative quotient num/den below 10:
\* the quotient rounded to the nearest hundredth, as "d.dd".
toFixed2(num, den) ==
  LET hundredths == (2 * 100 * num + den) \div (2 * den)
  IN  DigitString(hundredths \div 100) \o "."
        \o DigitString((hundredths \div 10) % 10)
        \o DigitString(hundredths % 10)

(***************************************************************************)
(* CORE FUNCTIONS                                                          *)
(***************************************************************************)

\* classifyChange with its two tests in the other order: a pre-approved
\* change is Standard even while the service is down.
classifyChangePreApprovedFirst(serviceDown, preApproved) ==
  IF preApproved = "yes" THEN "Standard"
  ELSE IF serviceDown = "yes" THEN "Emergency"
  ELSE "Normal"

\* lacrosse-logic.js:123-131
classifyChange(serviceDown, preApproved) ==
  IF serviceDown = "yes" THEN "Emergency"
  ELSE IF preApproved = "yes" THEN "Standard"
  ELSE "Normal"

\* scores.reduce((acc, val) => acc + val, 0), lacrosse-logic.js:147: a left
\* fold from the initial accumulator.
RECURSIVE reduceSum(_, _)
reduceSum(scores, acc) ==
  IF scores = << >> THEN acc
  ELSE reduceSum(Tail(scores), acc + Head(scores))

\* The tier chain with strict comparisons: a score on a boundary falls into
\* the tier above.
tierOfStrict(score) ==
  IF score.num * 10 < LowMaxTenths * score.den THEN "Low"
  ELSE IF score.num * 10 < MediumMaxTenths * score.den THEN "Medium"
  ELSE "High"

\* The tier chain of lacrosse-logic.js:150-157 on score = num/den.
tierOf(score) ==
  IF score.num * 10 <= LowMaxTenths * score.den THEN "Low"
  ELSE IF score.num * 10 <= MediumMaxTenths * score.den THEN "Medium"
  ELSE "High"

\* assessRisk dividing by the top of the scale instead of the number of scores.
assessRiskFixedDivisor(scores) ==
  LET sum   == reduceSum(scores, 0)
      score == [num |-> sum, den |-> SliderMax]
  IN  [score |-> score, tier |-> tierOf(score)]

\* lacrosse-logic.js:146-160
assessRisk(scores) ==
  LET sum   == reduceSum(scores, 0)
      score == [num |-> sum, den |-> Len(scores)]
  IN  [score |-> score, tier |-> tierOf(score)]

\* getApprovalPath building the "<type>-<tier>" key for every change type.
getApprovalPathAlwaysTier(changeType, riskTier) ==
  OrEmptyArray(GetProperty(workflows, changeType \o "-" \o riskTier))

\* getApprovalPath building the Normal key with another separator.
getApprovalPathUnderscore(changeType, riskTier) ==
  IF changeType = "Normal"
  THEN OrEmptyArray(GetProperty(workflows, "Normal_" \o riskTier))
  ELSE OrEmptyArray(GetProperty(workflows, changeType))

\* lacrosse-logic.js:171-176, reading the module-level table.  The function
\* holds no throw statement and none of its expressions can raise, so every
\* call returns.
getApprovalPath(changeType, riskTier) ==
  IF changeType = "Normal"
  THEN OrEmptyArray(GetProperty(workflows, "Normal-" \o riskTier))
  ELSE OrEmptyArray(GetProperty(workflows, changeType))

\* The own property of the table whose array a call hands back by reference,
\* or "undefined" when the call hands back a fresh [] or an inherited member.
returnedEntry(changeType, riskTier) ==
  LET key == IF changeType = "Normal" THEN "Normal-" \o riskTier ELSE changeType
  IN  IF key \in DOMAIN workflows THEN key ELSE "undefined"


(***************************************************************************)
(* INITIAL STATE                                                           *)
(***************************************************************************)

\* The elements setVisible is applied to (lacrosse-logic.js:311-329, 344-349).
Cards ==
  {"results-section", "risk-sliders-card", "risk-score-card", "approval-card",
   "checklist-card"}

\* The page as loaded, before any event: nothing checked, no result rendered,
\* the results section and its cards hidden (the handlers reveal them,
\* lacrosse-logic.js:310-329), #sliders-container empty until buildSliders.
PageInit ==
  /\ serviceDownChecked = "undefined"
  /\ preApprovedChecked = "undefined"
  /\ alertOpen = FALSE
  /\ hidden = [c \in Cards |-> TRUE]
  /\ classificationOutput = [textContent |-> "", className |-> ""]
  /\ classificationNote = ""
  /\ slidersContainer = << >>
  /\ compositeScore = ""
  /\ riskTierBadge = [textContent |-> "", className |-> ""]
  /\ approvalPathOutput = << >>
  /\ classifyCall = << >>
  /\ pathCall = << >>

\* The module-level constants as evaluated at load (lacrosse-logic.js:7, 53).
TablesInit ==
  /\ dimensions = RISK_DIMENSIONS
  /\ workflows = APPROVAL_WORKFLOWS

(***************************************************************************)
(* DIRECT CALLS OF THE CORE FUNCTIONS                                      *)
(***************************************************************************)

\* The two answers of the form.
YesNo == {"yes", "no"}

\* The tiers assessRisk produces.
Tiers == {"Low", "Medium", "High"}

\* Second arguments tried for getApprovalPath: null, the three tiers, and a
\* tier name the table does not know.
RiskTierInputs == {"null"} \cup Tiers \cup {"Critical"}

\* First arguments tried for getApprovalPath: the three change types, a string
\* that is a table key but no change type, a string the table does not know,
\* and two strings that name members of Object.prototype.
ChangeTypeInputs ==
  {"Standard", "Normal", "Emergency", "Normal-Low", "Expedited",
   "constructor", "toString"}

\* Every array of one score per risk dimension, each score in the slider range.
ScoreInputs == [1..Len(RISK_DIMENSIONS) -> SliderMin..SliderMax]

InitCore ==
  /\ TablesInit
  /\ PageInit
  /\ pc = "ready"
  /\ ret = "pending"
  /\ \/ op = "classifyChange" /\ args \in YesNo \X YesNo
     \/ op = "assessRisk" /\ args \in ScoreInputs
     \/ op = "getApprovalPath" /\ args \in ChangeTypeInputs \X RiskTierInputs

\* classifyChange(serviceDown, preApproved), lacrosse-logic.js:123-131
CallClassifyChange ==
  /\ pc = "ready"
  /\ op = "classifyChange"
  /\ ret' = classifyChange(args[1], args[2])
  /\ pc' = "returned"
  /\ UNCHANGED << dimensions, workflows, pageVars, op, args >>

\* assessRisk(scores), lacrosse-logic.js:146-160
CallAssessRisk ==
  /\ pc = "ready"
  /\ op = "assessRisk"
  /\ ret' = assessRisk(args)
  /\ pc' = "returned"
  /\ UNCHANGED << dimensions, workflows, pageVars, op, args >>

\* getApprovalPath(changeType, riskTier), lacrosse-logic.js:171-176
CallGetApprovalPath ==
  /\ pc = "ready"
  /\ op = "getApprovalPath"
  /\ ret' = getApprovalPath(args[1], args[2])
  /\ pc' = IF ret'.type = "throw" THEN "threw" ELSE "returned"
  /\ UNCHANGED << dimensions, workflows, pageVars, op, args >>

\* The composition of lacrosse-logic.js:341 and 346: the tier assessRisk
\* returned is handed to getApprovalPath('Normal', tier).
ResolveAssessed ==
  /\ pc = "returned"
  /\ op = "assessRisk"
  /\ ret' = [score |-> ret.score, tier |-> ret.tier,
             path |-> getApprovalPath("Normal", ret.tier)]
  /\ pc' = "resolved"
  /\ UNCHANGED << dimensions, workflows, pageVars, op, args >>

NextCore ==
  \/ CallClassifyChange
  \/ CallAssessRisk
  \/ CallGetApprovalPath
  \/ ResolveAssessed

SpecCore == InitCore /\ [][NextCore]_vars


(***************************************************************************)
(* DOM HELPERS                                                             *)
(***************************************************************************)

\* setVisible(id, visible), lacrosse-logic.js:183-186, on the hidden
\* attributes h: an id that names no element changes nothing.
setVisible(h, id, visible) ==
  IF id \in DOMAIN h THEN [h EXCEPT ![id] = ~visible] ELSE h

\* renderClassification(changeType), lacrosse-logic.js:189-210: the badge
\* (text, class list) and the note it writes.
renderClassification(changeType) ==
  [output |->
     [textContent |-> changeType,
      className |-> "classification-badge " \o
        (CASE changeType = "Standard"  -> "badge-standard"
           [] changeType = "Normal"    -> "badge-normal"
           [] changeType = "Emergency" -> "badge-emergency")],
   note |->
     CASE changeType = "Standard" ->
            "Pre-approved change model confirmed. No per-instance approval required -- proceed through the automated pipeline."
       [] changeType = "Normal" ->
            "This change requires assessment and authorization. Score the 7 risk dimensions below, then click Assess Risk."
       [] changeType = "Emergency" ->
            "Service is down. Implement immediately via the Emergency Change flow. Complete full documentation within 48 hours."]

\* renderApprovalPath whose loop consumes its argument (while (steps.length)
\* ... steps.shift()) instead of reading it.
renderApprovalPathDraining(steps) ==
  [container |-> << steps >>, steps |-> << >>]

\* renderApprovalPath(steps), lacrosse-logic.js:213-223: the container is
\* emptied and gets one <ol> holding an <li> per step, in order; forEach
\* reads the array and leaves it as it was.  container is the new content of
\* #approval-path-output, steps the array argument after the call.
renderApprovalPath(steps) ==
  [container |-> << steps >>, steps |-> steps]

\* renderRiskScore(score, tier), lacrosse-logic.js:226-234
renderRiskScore(score, tier) ==
  [compositeScore |-> toFixed2(score.num, score.den),
   riskTier |->
     [textContent |-> "Risk Tier: " \o tier,
      className |-> "risk-tier-badge " \o
        (CASE tier = "Low"    -> "tier-low"
           [] tier = "Medium" -> "tier-medium"
           [] tier = "High"   -> "tier-high")]]

\* buildSliders(), lacrosse-logic.js:240-278: the container is emptied and
\* gets one row per risk dimension, in table order: the label with its
\* tooltip, the range input at its default value, and the value display
\* showing that value.  (The newline of the tooltip is written "\n".)
buildSliders ==
  [i \in 1..Len(dimensions) |->
     [label    |-> dimensions[i].label,
      title    |-> dimensions[i].lowDesc \o "\\n" \o dimensions[i].highDesc,
      sliderId |-> "slider-" \o dimensions[i].id,
      value    |-> DigitString(SliderDefault),
      valId    |-> "val-" \o dimensions[i].id,
      valText  |-> DigitString(SliderDefault)]]

\* The score readSliderValues uses for a dimension whose slider is not in the
\* document, lacrosse-logic.js:284.
MissingSliderScore == 3

\* readSliderValues(), lacrosse-logic.js:281-286
readSliderValues ==
  [i \in 1..Len(dimensions) |->
     LET id   == "slider-" \o dimensions[i].id
         rows == {r \in 1..Len(slidersContainer) : slidersContainer[r].sliderId = id}
     IN  IF rows # {}
         THEN parseInt(slidersContainer[CHOOSE r \in rows : \A q \in rows : r <= q].value)
         ELSE MissingSliderScore]

(***************************************************************************)
(* EVENT HANDLERS                                                          *)
(***************************************************************************)

\* The test of lacrosse-logic.js:303 with && in place of ||.
AnswersMissingBoth(serviceDown, preApproved) ==
  serviceDown = "undefined" /\ preApproved = "undefined"

\* !serviceDown || !preApproved, lacrosse-logic.js:303: the values of the
\* radios ("yes", "no") are truthy, undefined is falsy.
AnswersMissing(serviceDown, preApproved) ==
  serviceDown = "undefined" \/ preApproved = "undefined"

\* The setVisible calls of the Normal branch, lacrosse-logic.js:311, 317-320.
hiddenAfterNormalSubmit(h) ==
  LET h1 == setVisible(h, "results-section", TRUE)
      h2 == setVisible(h1, "risk-sliders-card", TRUE)
      h3 == setVisible(h2, "risk-score-card", FALSE)
      h4 == setVisible(h3, "approval-card", FALSE)
  IN  setVisible(h4, "checklist-card", FALSE)

\* The other branch without its first setVisible call: the sliders card stays
\* as it was.
hiddenAfterOtherSubmitKeepSliders(h) ==
  LET h1 == setVisible(h, "results-section", TRUE)
      h3 == setVisible(h1, "risk-score-card", FALSE)
      h4 == setVisible(h3, "approval-card", TRUE)
  IN  setVisible(h4, "checklist-card", TRUE)

\* The setVisible calls of the Standard / Emergency branch,
\* lacrosse-logic.js:311, 323-324, 328-329.
hiddenAfterOtherSubmit(h) ==
  LET h1 == setVisible(h, "results-section", TRUE)
      h2 == setVisible(h1, "risk-sliders-card", FALSE)
      h3 == setVisible(h2, "risk-score-card", FALSE)
      h4 == setVisible(h3, "approval-card", TRUE)
  IN  setVisible(h4, "checklist-card", TRUE)

\* The setVisible calls of the Assess Risk handler, lacrosse-logic.js:344,
\* 348-349.
hiddenAfterAssess(h) ==
  LET h1 == setVisible(h, "risk-score-card", TRUE)
      h2 == setVisible(h1, "approval-card", TRUE)
  IN  setVisible(h2, "checklist-card", TRUE)

\* The table after a handler rendered the array getApprovalPath returned: the
\* array is the table's own entry (returned by reference) unless the lookup
\* missed, so what the rendering does to its argument it does to the table.
workflowsAfterRender(changeType, tier, stepsAfter) ==
  LET entry == returnedEntry(changeType, tier)
  IN  IF entry = "undefined" THEN workflows
      ELSE [workflows EXCEPT ![entry] = stepsAfter]

\* The user checks one of the service-down radios (read at
\* lacrosse-logic.js:300).
CheckServiceDown(v) ==
  /\ ~alertOpen
  /\ serviceDownChecked # v
  /\ serviceDownChecked' = v
  /\ UNCHANGED << dimensions, workflows, preApprovedChecked, alertOpen, hidden,
                  classificationOutput, classificationNote, slidersContainer,
                  compositeScore, riskTierBadge, approvalPathOutput,
                  classifyCall, pathCall, callVars >>

\* The user checks one of the pre-approved radios (read at
\* lacrosse-logic.js:301).
CheckPreApproved(v) ==
  /\ ~alertOpen
  /\ preApprovedChecked # v
  /\ preApprovedChecked' = v
  /\ UNCHANGED << dimensions, workflows, serviceDownChecked, alertOpen, hidden,
                  classificationOutput, classificationNote, slidersContainer,
                  compositeScore, riskTierBadge, approvalPathOutput,
                  classifyCall, pathCall, callVars >>

\* How many of the sliders, counted from the first, the user moves.
MovableSliders == 4

\* Where the user leaves a slider: at either end of the scale or back in the
\* middle.  (The direct calls of assessRisk cover every array of scores.)
SliderStops == {SliderMin, SliderDefault, SliderMax}

\* The user moves slider i to v while the sliders are on screen; the input
\* listener of lacrosse-logic.js:269-271 copies the value to the display.
SliderInput(i, v) ==
  /\ ~alertOpen
  /\ ~hidden["results-section"]
  /\ ~hidden["risk-sliders-card"]
  /\ i \in 1..Len(slidersContainer)
  /\ slidersContainer[i].value # DigitString(v)
  /\ slidersContainer' =
       [slidersContainer EXCEPT ![i].value = DigitString(v),
                                ![i].valText = DigitString(v)]
  /\ UNCHANGED << dimensions, workflows, serviceDownChecked, preApprovedChecked,
                  alertOpen, hidden, classificationOutput, classificationNote,
                  compositeScore, riskTierBadge, approvalPathOutput,
                  classifyCall, pathCall, callVars >>

\* The submit handler, lacrosse-logic.js:297-333.  With an answer missing it
\* raises the alert and returns; the alert stays on screen until dismissed.
\* (scrollIntoView moves the viewport, which is not part of the state.)
Submit ==
  /\ ~alertOpen
  /\ IF AnswersMissing(serviceDownChecked, preApprovedChecked)
     THEN /\ alertOpen' = TRUE
          /\ UNCHANGED << workflows, hidden, classificationOutput,
                          classificationNote, slidersContainer,
                          approvalPathOutput, classifyCall, pathCall >>
     ELSE LET changeType == classifyChange(serviceDownChecked, preApprovedChecked)
              rendered   == renderClassification(changeType)
          IN  /\ classifyCall' = << serviceDownChecked, preApprovedChecked >>
              /\ classificationOutput' = rendered.output
              /\ classificationNote' = rendered.note
              /\ UNCHANGED alertOpen
              /\ IF changeType = "Normal"
                 THEN /\ slidersContainer' = buildSliders
                      /\ hidden' = hiddenAfterNormalSubmit(hidden)
                      /\ UNCHANGED << workflows, approvalPathOutput, pathCall >>
                 ELSE LET steps == getApprovalPath(changeType, "null")
                          list  == renderApprovalPath(steps.items)
                      IN  /\ pathCall' = << changeType, "null" >>
                          /\ approvalPathOutput' = list.container
                          /\ workflows' =
                               workflowsAfterRender(changeType, "null", list.steps)
                          /\ hidden' = hiddenAfterOtherSubmit(hidden)
                          /\ UNCHANGED slidersContainer
  /\ UNCHANGED << dimensions, serviceDownChecked, preApprovedChecked,
                  compositeScore, riskTierBadge, callVars >>

\* The user dismisses the alert of lacrosse-logic.js:304.
DismissAlert ==
  /\ alertOpen
  /\ alertOpen' = FALSE
  /\ UNCHANGED << dimensions, workflows, serviceDownChecked, preApprovedChecked,
                  hidden, classificationOutput, classificationNote,
                  slidersContainer, compositeScore, riskTierBadge,
                  approvalPathOutput, classifyCall, pathCall, callVars >>

\* The Assess Risk button can be clicked: it is on screen only while the
\* risk-sliders card is.
AssessRiskClickable ==
  /\ ~hidden["results-section"]
  /\ ~hidden["risk-sliders-card"]

\* The Assess Risk click handler, lacrosse-logic.js:339-352.
AssessRiskClick ==
  /\ ~alertOpen
  /\ LET scores   == readSliderValues
         assessed == assessRisk(scores)
         badge    == renderRiskScore(assessed.score, assessed.tier)
         steps    == getApprovalPath("Normal", assessed.tier)
         list     == renderApprovalPath(steps.items)
     IN  /\ compositeScore' = badge.compositeScore
         /\ riskTierBadge' = badge.riskTier
         /\ pathCall' = << "Normal", assessed.tier >>
         /\ approvalPathOutput' = list.container
         /\ workflows' = workflowsAfterRender("Normal", assessed.tier, list.steps)
         /\ hidden' = hiddenAfterAssess(hidden)
  /\ UNCHANGED << dimensions, serviceDownChecked, preApprovedChecked, alertOpen,
                  classificationOutput, classificationNote, slidersContainer,
                  classifyCall, callVars >>

\* The page as loaded; no direct call is in progress.
Init ==
  /\ TablesInit
  /\ PageInit
  /\ op = "none"
  /\ args = << >>
  /\ ret = "none"
  /\ pc = "idle"

Next ==
  \/ \E v \in YesNo : CheckServiceDown(v)
  \/ \E v \in YesNo : CheckPreApproved(v)
  \/ \E i \in 1..MovableSliders, v \in SliderStops : SliderInput(i, v)
  \/ Submit
  \/ DismissAlert
  \/ AssessRiskClickable /\ AssessRiskClick

Spec == Init /\ [][Next]_vars

(***************************************************************************)
(* PROPERTIES OF THE CORE FUNCTIONS (under SpecCore)                       *)
(***************************************************************************)

\* The number of positions of scores that hold v.
CountOf(scores, v) == Cardinality({i \in DOMAIN scores : scores[i] = v})

\* The sum of scores computed from how often each value occurs, which does
\* not look at the order of the scores.
MultisetSum(scores) ==
  1 * CountOf(scores, 1) + 2 * CountOf(scores, 2) + 3 * CountOf(scores, 3)
    + 4 * CountOf(scores, 4) + 5 * CountOf(scores, 5)

ClassifyReturned == pc = "returned" /\ op = "classifyChange"

AssessReturned == pc \in {"returned", "resolved"} /\ op = "assessRisk"

PathReturned == pc \in {"returned", "threw"} /\ op = "getApprovalPath"

\* C1: classifyChange is total on the two yes/no answers and serviceDown wins:
\* the result is Emergency exactly when serviceDown is yes, Standard exactly
\* when serviceDown is no and preApproved is yes, Normal exactly when both
\* are no, and never anything else.
C1_ClassifyDecisionTree ==
  ClassifyReturned =>
    /\ ret \in {"Emergency", "Standard", "Normal"}
    /\ (ret = "Emergency") <=> (args[1] = "yes")
    /\ (ret = "Standard") <=> (args[1] = "no" /\ args[2] = "yes")
    /\ (ret = "Normal") <=> (args[1] = "no" /\ args[2] = "no")

\* The case where both tests would fire: the service is down and the change
\* is pre-approved.
C1_Witness ==
  ClassifyReturned /\ args = << "yes", "yes" >> /\ ret = "Emergency"

\* C2: for every 7 scores in 1..5 the score is the mean: score * 7 is the sum
\* of the scores, the sum is in 7..35, so the score is in [1, 5]; the sum is
\* the one computed from the multiset of the scores, so their order does not
\* matter.
C2_ScoreIsMean ==
  AssessReturned =>
    /\ ret.score.den = 7
    /\ ret.score.num = MultisetSum(args)
    /\ ret.score.num \in 7..35
    /\ 1 * ret.score.den <= ret.score.num
    /\ ret.score.num <= 5 * ret.score.den

\* An unsorted input with repeated values.
C2_Witness ==
  AssessReturned /\ args = << 5, 1, 4, 2, 3, 1, 5 >> /\ ret.score.num = 21

\* C3: exactly one tier per score, with the boundary values in the lower
\* tier: a sum of 7..14 (mean up to 2.0) is Low, 15..24 (mean up to 3.5, which
\* no sum of 7 integers hits; 24/7 is the largest below it) is Medium, 25..35
\* is High.  The three ranges are consecutive, so the tier never decreases as
\* the sum grows.
C3_TierBoundaries ==
  AssessReturned =>
    LET sum == MultisetSum(args)
    IN  /\ ret.tier \in Tiers
        /\ (ret.tier = "Low") <=> (sum \in 7..14)
        /\ (ret.tier = "Medium") <=> (sum \in 15..24)
        /\ (ret.tier = "High") <=> (sum \in 25..35)

\* The mean is exactly 2.0.
C3_Witness ==
  AssessReturned /\ MultisetSum(args) = 14 /\ ret.tier = "Low"

\* C4: getApprovalPath('Normal', null) fails with MissingTier, surfaced to the
\* caller, instead of returning a step list.
C4_MissingTierSurfaced ==
  (PathReturned /\ args = << "Normal", "null" >>) => pc = "threw"

\* The change types and tiers of the function's documented parameter types.
ValidChangeTypes == {"Standard", "Normal", "Emergency"}

ValidTierArguments == {"null"} \cup Tiers

\* C5: for every valid input the result is the table entry of the lookup key
\* in table order: Standard and Emergency ignore the tier (null or any of the
\* three) and give the 6 Standard and 7 Emergency steps; Normal with a tier
\* gives the 7, 8 and 10 steps of Normal-Low, Normal-Medium and Normal-High.
C5_PathIsTableEntry ==
  (PathReturned /\ args[1] \in ValidChangeTypes /\ args[2] \in ValidTierArguments
     /\ ~(args[1] = "Normal" /\ args[2] = "null")) =>
    /\ pc = "returned"
    /\ ret.type = "array"
    /\ args[1] = "Standard" => ret.items = StandardSteps /\ Len(ret.items) = 6
    /\ args[1] = "Emergency" => ret.items = EmergencySteps /\ Len(ret.items) = 7
    /\ args = << "Normal", "Low" >> =>
         ret.items = NormalLowSteps /\ Len(ret.items) = 7
    /\ args = << "Normal", "Medium" >> =>
         ret.items = NormalMediumSteps /\ Len(ret.items) = 8
    /\ args = << "Normal", "High" >> =>
         ret.items = NormalHighSteps /\ Len(ret.items) = 10

\* A tier is supplied with a change type that must ignore it.
C5_Witness ==
  PathReturned /\ args = << "Emergency", "High" >> /\ ret.items = EmergencySteps

\* The key getApprovalPath looks up.
LookupKey ==
  IF args[1] = "Normal" THEN "Normal-" \o args[2] ELSE args[1]

\* C6: when the lookup key is absent from the table the call returns an empty
\* step sequence and does not fail; and an empty result comes only from an
\* absent key.
C6_AbsentKeyGivesEmpty ==
  PathReturned =>
    /\ LookupKey \notin DOMAIN APPROVAL_WORKFLOWS =>
         pc = "returned" /\ ret = Array(<< >>)
    /\ (ret.type = "array" /\ ret.items = << >>) =>
         LookupKey \notin DOMAIN APPROVAL_WORKFLOWS

\* C7: for every 7 scores in 1..5, getApprovalPath('Normal', tier) with the
\* tier assessRisk returned is the non-empty table entry of that tier; all
\* ones give score 1, Low and the 7 Normal-Low steps, all fives give score 5,
\* High and the 10 Normal-High steps.
C7_ScoredPathIsTierEntry ==
  (pc = "resolved" /\ op = "assessRisk") =>
    LET sum == MultisetSum(args)
    IN  /\ ret.tier \in Tiers
        /\ ret.path.type = "array"
        /\ ret.path.items # << >>
        /\ sum \in 7..14 => ret.path.items = NormalLowSteps
        /\ sum \in 15..24 => ret.path.items = NormalMediumSteps
        /\ sum \in 25..35 => ret.path.items = NormalHighSteps
        /\ args = << 1, 1, 1, 1, 1, 1, 1 >> =>
             /\ ret.score.num = 1 * ret.score.den
             /\ ret.tier = "Low"
             /\ Len(ret.path.items) = 7
        /\ args = << 5, 5, 5, 5, 5, 5, 5 >> =>
             /\ ret.score.num = 5 * ret.score.den
             /\ ret.tier = "High"
             /\ Len(ret.path.items) = 10

\* The all-fives scenario, resolved.
C7_Witness ==
  /\ pc = "resolved"
  /\ op = "assessRisk"
  /\ args = << 5, 5, 5, 5, 5, 5, 5 >>
  /\ ret.path.items = NormalHighSteps


(***************************************************************************)
(* PROPERTIES OF THE PAGE (under Spec)                                     *)
(***************************************************************************)

\* C8: no hidden state drift: after any sequence of submit and Assess Risk
\* events (which call the three functions) the risk-dimension table still has
\* its 7 entries in order and the workflow table its 5 keys and step lists,
\* so calling getApprovalPath again with the arguments of the latest call
\* returns what that call returned and the page rendered.
C8_TablesUnchanged ==
  /\ dimensions = RISK_DIMENSIONS
  /\ Len(dimensions) = 7
  /\ workflows = APPROVAL_WORKFLOWS
  /\ Cardinality(DOMAIN workflows) = 5
  /\ pathCall # << >> =>
       approvalPathOutput = << getApprovalPath(pathCall[1], pathCall[2]).items >>

\* Both handlers have run and rendered a table entry.
C8_Witness ==
  /\ classifyCall = << "no", "no" >>
  /\ pathCall = << "Normal", "High" >>
  /\ approvalPathOutput = << NormalHighSteps >>

\* What the handlers render and record.
displayVars ==
  << hidden, classificationOutput, classificationNote, slidersContainer,
     compositeScore, riskTierBadge, approvalPathOutput, classifyCall, pathCall >>

\* C9: a submit with either answer missing is rejected: classifyChange is
\* never called with a missing answer, and while an answer is missing no step
\* (the rejected submit included) changes anything on display.
C9_MissingAnswerRejected ==
  /\ [](classifyCall # << >> =>
          classifyCall[1] \in YesNo /\ classifyCall[2] \in YesNo)
  /\ [][(serviceDownChecked = "undefined" \/ preApprovedChecked = "undefined")
          => UNCHANGED displayVars]_vars

\* A submit was rejected with exactly one answer missing.
C9_Witness ==
  /\ alertOpen
  /\ serviceDownChecked = "yes"
  /\ preApprovedChecked = "undefined"
  /\ classifyCall = << >>

Shown(c) == ~hidden[c]

\* The sum of the values the sliders hold.
SliderSum ==
  MultisetSum([i \in 1..Len(slidersContainer) |-> parseInt(slidersContainer[i].value)])

\* The approval path on display belongs to the classification on display.
DisplayConsistent ==
  LET t == classificationOutput.textContent
  IN  /\ t \in {"", "Standard", "Normal", "Emergency"}
      /\ t = "" => \A c \in Cards : hidden[c]
      /\ t = "Normal" =>
           /\ Shown("results-section")
           /\ Shown("risk-sliders-card")
           /\ Shown("risk-score-card") <=> Shown("approval-card")
           /\ Shown("checklist-card") <=> Shown("approval-card")
           /\ Shown("approval-card") =>
                \E tier \in Tiers :
                  /\ riskTierBadge.textContent = "Risk Tier: " \o tier
                  /\ pathCall = << "Normal", tier >>
                  /\ approvalPathOutput = << APPROVAL_WORKFLOWS["Normal-" \o tier] >>
      /\ t \in {"Standard", "Emergency"} =>
           /\ Shown("results-section")
           /\ ~Shown("risk-sliders-card")
           /\ ~Shown("risk-score-card")
           /\ Shown("approval-card")
           /\ Shown("checklist-card")
           /\ pathCall = << t, "null" >>
           /\ approvalPathOutput = << APPROVAL_WORKFLOWS[t] >>
      /\ AssessRiskClickable => t = "Normal"
      /\ pathCall # << "Normal", "null" >>

\* Under a Normal classification the approval card comes on screen only by
\* an Assess Risk click.
ApprovalAfterAssessOnly ==
  (/\ classificationOutput'.textContent = "Normal"
   /\ ~hidden'["approval-card"]
   /\ ~(classificationOutput.textContent = "Normal" /\ ~hidden["approval-card"]))
    => AssessRiskClick

\* The scorer's output changes only while the classification on display is
\* Normal, and an Assess Risk click shows the tier of the sliders' values and
\* that tier's steps.
ScorerOnlyForNormal ==
  /\ (compositeScore' # compositeScore \/ riskTierBadge' # riskTierBadge) =>
       classificationOutput.textContent = "Normal"
  /\ (AssessRiskClickable /\ AssessRiskClick) =>
       LET tier == IF SliderSum <= 14 THEN "Low"
                   ELSE IF SliderSum <= 24 THEN "Medium" ELSE "High"
       IN  /\ riskTierBadge'.textContent = "Risk Tier: " \o tier
           /\ approvalPathOutput' = << APPROVAL_WORKFLOWS["Normal-" \o tier] >>

\* C10: with Assess Risk clickable only while the sliders card is on screen,
\* in every sequence of events the approval path on display belongs to the
\* classification on display: a Normal submit hides the approval, score and
\* checklist cards until Assess Risk is clicked, which shows the Normal-<tier>
\* steps of the tier just computed; a Standard or Emergency submit hides the
\* sliders and score cards and shows that category's steps, resolved with a
\* null tier.  So the scorer runs only under a Normal classification and
\* getApprovalPath is never called with Normal and null.
C10_PathBelongsToClassification ==
  /\ []DisplayConsistent
  /\ [][ApprovalAfterAssessOnly]_vars
  /\ [][ScorerOnlyForNormal]_vars

\* A Normal change assessed Low after the user moved four sliders to the
\* bottom of the scale.
C10_Witness ==
  /\ classificationOutput.textContent = "Normal"
  /\ Shown("approval-card")
  /\ compositeScore = "1.86"
  /\ riskTierBadge.textContent = "Risk Tier: Low"
  /\ approvalPathOutput = << NormalLowSteps >>

=============================================================================
